---- MODULE Spec2Model ----
(***************************************************************************)
(* Model of preprocessing.py: integrity check, duplicate removal, minute   *)
(* gap filling, the raw-to-parquet conversion and the two batch drivers.   *)
(*                                                                         *)
(* A cell of a frame is an integer or NA (pandas' NaN).  Timestamps are    *)
(* kept in milliseconds since the epoch, prices and volumes are integers   *)
(* standing for the floats of the files.                                   *)
(***************************************************************************)
EXTENDS Integers, Sequences, FiniteSets, TLC

VARIABLES
    pc,           \* position of the program under study
    initialData,  \* addMissingMinutes: the list of row dicts passed in
    cleanData,    \* addMissingMinutes: the list returned
    df,           \* assert_integrity / quick_clean: the frame passed in
    checked,      \* outcome of assert_integrity(df)
    cleaned,      \* outcome of quick_clean(df)
    cleaned2,     \* outcome of quick_clean(quick_clean(df))
    raw,          \* write_raw_to_parquet: the raw frame passed in
    parquet,      \* write_raw_to_parquet: what to_parquet persisted (or the error)
    dir,          \* batch drivers: the csv directory, a sequence of files
    orig,         \* batch drivers: the directory as it was before the first run
    compressed,   \* compress_data: the parquet written for each file
    mode,         \* batch drivers: which driver runs
    pos,          \* batch drivers: index of the file the loop is at
    runs          \* batch drivers: completed runs of the driver

vars == <<pc, initialData, cleanData, df, checked, cleaned, cleaned2,
          raw, parquet, dir, orig, compressed, mode, pos, runs>>

----------------------------------------------------------------------------
(* Program constants *)

\* timedelta(minutes=1), in milliseconds
MINUTE == 60000
\* close_time - open_time of a full one-minute candle
FULL_MINUTE == 59999
\* number of values of a uint16
UINT16 == 65536
\* 2^24: integers below it are exact in float32
FLOAT32_MANT == 16777216
\* pandas' missing value (NaN / NaT)
NA == -999

(* Bounds of the model *)
MaxRows == 3        \* rows of a list given to addMissingMinutes
MaxMinute == 5      \* latest minute of a row given to addMissingMinutes
MaxCleanRows == 3   \* rows of a frame given to assert_integrity / quick_clean
MaxCleanMinute == 1 \* latest minute of such a row
MaxRawRows == 3     \* rows of a frame given to write_raw_to_parquet
MaxRawMinute == 4   \* latest minute of such a row
MaxFiles == 2       \* files of the directory
MaxFileRows == 2    \* rows of a file of the directory
MaxGroomRuns == 2   \* runs of groom_data on the directory

----------------------------------------------------------------------------
(* Generic helpers *)

Range(s) == {s[i] : i \in 1..Len(s)}

SeqsUpTo(S, n) == UNION {[1..k -> S] : k \in 0..n}

\* position of column name c in the column list cols (0 when absent)
ColIdx(cols, c) ==
    IF \E k \in 1..Len(cols) : cols[k] = c
    THEN CHOOSE k \in 1..Len(cols) : cols[k] = c
    ELSE 0

\* df[c]: the cells of column c, in row order
Column(f, c) == [r \in 1..Len(f.data) |-> f.data[r][ColIdx(f.columns, c)]]

\* the rows of f selected by a boolean mask, index labels kept (df[mask])
RECURSIVE MaskFrom(_, _, _)
MaskFrom(f, mask, r) ==
    IF r > Len(f.data) THEN [columns |-> f.columns, index |-> <<>>, data |-> <<>>]
    ELSE LET rest == MaskFrom(f, mask, r + 1) IN
         IF mask[r]
         THEN [columns |-> f.columns,
               index |-> <<f.index[r]>> \o rest.index,
               data |-> <<f.data[r]>> \o rest.data]
         ELSE rest

Masked(f, mask) == MaskFrom(f, mask, 1)

\* the header of a raw csv file
RawColumns ==
    <<"open_time", "open", "high", "low", "close", "volume", "close_time",
      "quote_asset_volume", "number_of_trades", "taker_buy_base_asset_volume",
      "taker_buy_quote_asset_volume", "ignore">>

----------------------------------------------------------------------------
(* addMissingMinutes *)

\* line 85: a previous row exists and the row is more than a minute later
GapBefore(previousRow, row) ==
    Len(previousRow) > 0 /\ row.datetime - previousRow[1].datetime > MINUTE

\* line 87 with the bound one minute too far: the last filler is left out
WhileCondOff(current, row) == current.datetime + 2 * MINUTE < row.datetime

\* line 87: the while condition
WhileCond(current, row) == current.datetime + MINUTE < row.datetime

\* lines 88-95 without line 96: the filler keeps the open it was copied with
FillerRowKeepOpen(current) ==
    [current EXCEPT
        !.datetime = current.datetime + MINUTE,
        !.volume = 0,
        !.quote_asset_volume = 0,
        !.number_of_trades = 0,
        !.taker_buy_base_asset_volume = 0,
        !.taker_buy_quote_asset_volume = 0,
        !.low = current.close,
        !.high = current.close]

\* lines 88-96: one pass of the loop body over `current`
FillerRow(current) ==
    [current EXCEPT
        !.datetime = current.datetime + MINUTE,
        !.volume = 0,
        !.quote_asset_volume = 0,
        !.number_of_trades = 0,
        !.taker_buy_base_asset_volume = 0,
        !.taker_buy_quote_asset_volume = 0,
        !.low = current.close,
        !.high = current.close,
        !.open = current.close]

\* lines 87-98: the while loop, appending a copy of `current` per pass
RECURSIVE FillLoop(_, _, _)
FillLoop(current, row, acc) ==
    IF WhileCond(current, row)
    THEN LET next == FillerRow(current) IN FillLoop(next, row, Append(acc, next))
    ELSE acc

\* lines 84-101: the for loop from row i on
RECURSIVE RowLoop(_, _, _, _)
RowLoop(data, i, previousRow, acc) ==
    IF i > Len(data) THEN acc
    ELSE LET row == data[i]
             filled == IF GapBefore(previousRow, row)
                       THEN FillLoop(previousRow[1], row, acc)
                       ELSE acc
         IN RowLoop(data, i + 1, <<row>>, Append(filled, row))

addMissingMinutes(data) == RowLoop(data, 1, <<>>, <<>>)

----------------------------------------------------------------------------
(* Specification: addMissingMinutes applied to a bounded list of rows *)

\* a row dict as write_raw_to_parquet hands it over; open differs from close
GapRow(t, c) ==
    [datetime |-> t, open |-> c + 1, high |-> c + 2, low |-> c - 1, close |-> c,
     volume |-> 7, quote_asset_volume |-> 8, number_of_trades |-> 3,
     taker_buy_base_asset_volume |-> 4, taker_buy_quote_asset_volume |-> 5]

GapTimes == {m * MINUTE : m \in 0..MaxMinute} \cup {MINUTE \div 2}

GapRows == {GapRow(t, c) : t \in GapTimes, c \in {10, 20}}

InitGap ==
    /\ pc = "start"
    /\ initialData \in SeqsUpTo(GapRows, MaxRows)
    /\ cleanData = <<>>
    /\ df = <<>> /\ checked = "none" /\ cleaned = <<>> /\ cleaned2 = <<>>
    /\ raw = <<>> /\ parquet = <<>>
    /\ dir = <<>> /\ orig = <<>> /\ compressed = <<>>
    /\ mode = "none" /\ pos = 0 /\ runs = 0

AddMissingMinutes ==
    /\ pc = "start"
    /\ cleanData' = addMissingMinutes(initialData)
    /\ pc' = "done"
    /\ UNCHANGED <<initialData, df, checked, cleaned, cleaned2, raw, parquet,
                   dir, orig, compressed, mode, pos, runs>>

NextGap == AddMissingMinutes

SpecGap == InitGap /\ [][NextGap]_vars

----------------------------------------------------------------------------
(* Claims about addMissingMinutes *)

MinuteAligned(data) == \A i \in 1..Len(data) : data[i].datetime % MINUTE = 0

\* k of the pair (data[i], data[i+1]): minutes from the one to the other
MinutesApart(data, i) == (data[i + 1].datetime - data[i].datetime) \div MINUTE

\* max(k - 1, 0)
Missing(data, i) ==
    IF MinutesApart(data, i) >= 2 THEN MinutesApart(data, i) - 1 ELSE 0

RECURSIVE MissingBefore(_, _)
MissingBefore(data, i) ==
    IF i <= 1 THEN 0 ELSE MissingBefore(data, i - 1) + Missing(data, i - 1)

\* where input row i lands in the output
PlaceOf(data, i) == i + MissingBefore(data, i)

\* the j-th record expected after r1: flat at r1's close, volumes zero
Synthesized(r1, j) ==
    [r1 EXCEPT
        !.datetime = r1.datetime + j * MINUTE,
        !.volume = 0,
        !.quote_asset_volume = 0,
        !.number_of_trades = 0,
        !.taker_buy_base_asset_volume = 0,
        !.taker_buy_quote_asset_volume = 0,
        !.open = r1.close,
        !.high = r1.close,
        !.low = r1.close]

\* C1: for consecutive input records r1 at minute t and r2 at minute t+k the
\* output holds, between them, exactly max(k-1, 0) synthesized records, at
\* minutes t+1 .. t+k-1 in ascending order, each with the five volume fields 0
\* and open = high = low = close = r1's close; none for k = 1 or k <= 0.
C1_GapFillerInsertsMissing ==
    (pc = "done" /\ MinuteAligned(initialData)) =>
        LET n == Len(initialData) IN
        /\ Len(cleanData) = n + MissingBefore(initialData, n)
        /\ \A i \in 1..n : cleanData[PlaceOf(initialData, i)] = initialData[i]
        /\ \A i \in 1..(n - 1) :
              /\ PlaceOf(initialData, i + 1)
                    = PlaceOf(initialData, i) + Missing(initialData, i) + 1
              /\ \A j \in 1..Missing(initialData, i) :
                    cleanData[PlaceOf(initialData, i) + j]
                        = Synthesized(initialData[i], j)

\* a gap of three minutes (two or more fillers), a k = 1 pair or a k <= 0 pair
C1_Witness ==
    /\ pc = "done"
    /\ MinuteAligned(initialData)
    /\ Len(initialData) = 3
    /\ MinutesApart(initialData, 1) = 3
    /\ MinutesApart(initialData, 2) <= 0
    /\ Len(cleanData) = 5

StrictlyAscending(data) ==
    \A i \in 1..(Len(data) - 1) : data[i].datetime < data[i + 1].datetime

\* C2: for an input sorted ascending by timestamp, with unique timestamps and
\* one-minute granularity, every two adjacent records of the output are exactly
\* one minute apart.
C2_NoTemporalHole ==
    (pc = "done" /\ StrictlyAscending(initialData) /\ MinuteAligned(initialData)) =>
        \A i \in 1..(Len(cleanData) - 1) :
            cleanData[i + 1].datetime - cleanData[i].datetime = MINUTE

\* two gaps of different sizes in one input
C2_Witness ==
    /\ pc = "done"
    /\ StrictlyAscending(initialData) /\ MinuteAligned(initialData)
    /\ Len(initialData) = 3
    /\ MinutesApart(initialData, 1) = 2
    /\ MinutesApart(initialData, 2) = 3
    /\ Len(cleanData) = 6

----------------------------------------------------------------------------
(* assert_integrity and quick_clean *)

\* df.isna().any(axis=1), one row: some cell of the row is NaN
IsNaAny(row) == \E k \in 1..Len(row) : row[k] = NA

\* df.isna().all(axis=1), one row: every cell of the row is NaN
IsNaAll(row) == \A k \in 1..Len(row) : row[k] = NA

\* Series.duplicated(keep='last'): a cell is marked when a later cell is equal
duplicatedLast(col) ==
    [r \in 1..Len(col) |-> \E q \in (r + 1)..Len(col) : col[q] = col[r]]

\* Series.duplicated(): a cell is marked when an earlier cell is equal to it;
\* pandas counts two NaN cells as equal
duplicated(col) == [r \in 1..Len(col) |-> \E q \in 1..(r - 1) : col[q] = col[r]]

\* lines 56-57: TRUE when both assertions pass
assert_integrity(f) ==
    /\ ~ \E r \in 1..Len(f.data) : IsNaAll(f.data[r])
    /\ ~ \E r \in 1..Len(f.data) : duplicated(Column(f, "open_time"))[r]

\* lines 64-66 left out: the frame keeps its duplicates
KeepDupes(f) == f

\* lines 64-66: drop dupes
DropDupes(f) ==
    LET dup == duplicated(Column(f, "open_time"))
        dupes == Cardinality({r \in 1..Len(dup) : dup[r]})
    IN IF dupes > 0
       THEN Masked(f, [r \in 1..Len(dup) |-> dup[r] = FALSE])
       ELSE f

\* an exception left the function / the function returned f
Raised == [raised |-> TRUE]
Returned(f) == [raised |-> FALSE, df |-> f]

\* lines 60-74; the sort of line 69 returns a new frame that is thrown away
quick_clean(f) ==
    LET deduped == DropDupes(f) IN
    IF assert_integrity(deduped) THEN Returned(deduped) ELSE Raised

----------------------------------------------------------------------------
(* Specification: assert_integrity and quick_clean on a bounded raw frame *)

\* a row of a raw csv file, in the order of RawColumns; close_time = NA when
\* the open_time is
FullRow(t, c) ==
    <<t, c + 1, c + 2, c - 1, c, 7,
      IF t = NA THEN NA ELSE t + FULL_MINUTE, 8, 3, 4, 5, 0>>

\* a row with only the open_time (or, for t = NA, nothing at all)
BlankRow(t) == <<t, NA, NA, NA, NA, NA, NA, NA, NA, NA, NA, NA>>

\* pd.read_csv: the rows under the given header, with a fresh RangeIndex
Frame(cols, rows) ==
    [columns |-> cols, index |-> [r \in 1..Len(rows) |-> r - 1], data |-> rows]

CleanTimes == {m * MINUTE : m \in 0..MaxCleanMinute} \cup {NA}

CleanRows ==
    {FullRow(t, c) : t \in CleanTimes, c \in {10, 20}}
        \cup {BlankRow(t) : t \in CleanTimes}

InitClean ==
    /\ pc = "start"
    /\ df \in {Frame(RawColumns, rows) : rows \in SeqsUpTo(CleanRows, MaxCleanRows)}
    /\ checked = "none" /\ cleaned = <<>> /\ cleaned2 = <<>>
    /\ initialData = <<>> /\ cleanData = <<>>
    /\ raw = <<>> /\ parquet = <<>>
    /\ dir = <<>> /\ orig = <<>> /\ compressed = <<>>
    /\ mode = "none" /\ pos = 0 /\ runs = 0

AssertIntegrity ==
    /\ pc = "start"
    /\ checked' = IF assert_integrity(df) THEN "passed" ELSE "failed"
    /\ pc' = "checked"
    /\ UNCHANGED <<df, cleaned, cleaned2, initialData, cleanData, raw, parquet,
                   dir, orig, compressed, mode, pos, runs>>

QuickClean ==
    /\ pc = "start"
    /\ cleaned' = quick_clean(df)
    /\ pc' = "cleaned"
    /\ UNCHANGED <<df, checked, cleaned2, initialData, cleanData, raw, parquet,
                   dir, orig, compressed, mode, pos, runs>>

QuickCleanAgain ==
    /\ pc = "cleaned"
    /\ ~cleaned.raised
    /\ cleaned2' = quick_clean(cleaned.df)
    /\ pc' = "cleaned2"
    /\ UNCHANGED <<df, checked, cleaned, initialData, cleanData, raw, parquet,
                   dir, orig, compressed, mode, pos, runs>>

NextClean == AssertIntegrity \/ QuickClean \/ QuickCleanAgain

SpecClean == InitClean /\ [][NextClean]_vars

----------------------------------------------------------------------------
(* Claims about assert_integrity and quick_clean *)

OpenTime(f, r) == f.data[r][ColIdx(f.columns, "open_time")]

\* two rows share an open_time (two empty open_time cells count as shared)
SharesOpenTime(f) ==
    \E i, j \in 1..Len(f.data) : i # j /\ OpenTime(f, i) = OpenTime(f, j)

\* some row has every field empty
HasAllEmptyRow(f) == \E r \in 1..Len(f.data) : Range(f.data[r]) = {NA}

FirstOccurrences(f) ==
    {r \in 1..Len(f.data) : \A q \in 1..(r - 1) : OpenTime(f, q) # OpenTime(f, r)}

\* g holds exactly the rows `keep` of f, in f's order, under their labels of f
IsSelection(g, f, keep) ==
    /\ g.columns = f.columns
    /\ Len(g.data) = Cardinality(keep) /\ Len(g.index) = Cardinality(keep)
    /\ {g.index[k] + 1 : k \in 1..Len(g.index)} = keep
    /\ \A k \in 1..(Len(g.index) - 1) : g.index[k] < g.index[k + 1]
    /\ \A k \in 1..Len(g.data) : g.data[k] = f.data[g.index[k] + 1]

\* C5: for every D on which clean(D) returns, clean(clean(D)) returns a Dataset
\* equal to clean(D) (same rows, same order), and clean(D) is D without the rows
\* whose open_time an earlier row has (the first occurrence is kept).
C5_CleanIdempotent ==
    pc = "cleaned2" =>
        /\ ~cleaned.raised
        /\ ~cleaned2.raised
        /\ cleaned2.df = cleaned.df
        /\ IsSelection(cleaned.df, df, FirstOccurrences(df))

\* the first clean removed a later duplicate that differs from the row kept
C5_Witness ==
    /\ pc = "cleaned2"
    /\ Len(df.data) = 3
    /\ OpenTime(df, 1) = OpenTime(df, 3)
    /\ df.data[1] # df.data[3]
    /\ Len(cleaned.df.data) = 2
    /\ ~cleaned2.raised

\* C10 as stated: after step 1 the integrity re-check always succeeds and clean
\* returns a Dataset.
C10_RecheckNeverFails == pc = "cleaned" => ~cleaned.raised

\* the first row of f with an empty open_time has every other field empty too
FirstEmptyKeyRowIsEmpty(f) ==
    \E r \in 1..Len(f.data) :
        /\ OpenTime(f, r) = NA
        /\ \A q \in 1..(r - 1) : OpenTime(f, q) # NA
        /\ Range(f.data[r]) = {NA}

\* C10 amended: after step 1 no two rows share an open_time, so the duplicate
\* half of the re-check cannot fail; the empty-row half can: clean fails with an
\* integrity violation exactly when the first row of D with an empty open_time
\* is an all-empty row, and returns a Dataset otherwise.
C10_RecheckFailsOnlyOnEmptyRow ==
    pc = "cleaned" =>
        /\ ~SharesOpenTime(DropDupes(df))
        /\ cleaned.raised <=> FirstEmptyKeyRowIsEmpty(df)
        /\ ~cleaned.raised => cleaned.df = DropDupes(df)

\* step 1 removed a duplicate and the re-check still failed
C10_Witness ==
    /\ pc = "cleaned"
    /\ cleaned.raised
    /\ SharesOpenTime(df)
    /\ Len(DropDupes(df).data) = 2
    /\ HasAllEmptyRow(df)

----------------------------------------------------------------------------
(* set_dtypes_compressed and write_raw_to_parquet *)

Cell(f, r, c) == f.data[r][ColIdx(f.columns, c)]

\* line 120 left out but for the NaN rows: a row of any duration is kept
IsAnyDuration(f, r) == Cell(f, r, "open_time") # NA /\ Cell(f, r, "close_time") # NA

\* line 120, one row: ~(open_time - close_time != -59999); a NaN operand makes
\* the comparison != true, so the row is dropped
IsFullMinute(f, r) ==
    /\ Cell(f, r, "open_time") # NA
    /\ Cell(f, r, "close_time") # NA
    /\ ~(Cell(f, r, "open_time") - Cell(f, r, "close_time") # -FULL_MINUTE)

\* line 123: df.drop(names, axis=1)
RECURSIVE DropAt(_, _)
DropAt(s, ks) ==
    IF s = <<>> THEN <<>>
    ELSE LET rest == DropAt(Tail(s), {k - 1 : k \in ks}) IN
         IF 1 \in ks THEN rest ELSE <<Head(s)>> \o rest

Drop(f, names) ==
    LET ks == {k \in 1..Len(f.columns) : f.columns[k] \in names} IN
    [columns |-> DropAt(f.columns, ks),
     index |-> f.index,
     data |-> [r \in 1..Len(f.data) |-> DropAt(f.data[r], ks)]]

\* pd.to_datetime(unit='ms'): the timestamp of a millisecond count, kept at
\* millisecond resolution; NaN becomes NaT
to_datetime(v) == IF v = NA THEN NA ELSE v

\* the float32 nearest to a float64 holding the integer v (ties to even)
RECURSIVE UlpFrom(_, _)
UlpFrom(v, g) == IF v < FLOAT32_MANT * g THEN g ELSE UlpFrom(v, 2 * g)

RoundHalfEven(v, g) ==
    LET q == v \div g
        r == v % g
    IN IF 2 * r < g THEN q * g
       ELSE IF 2 * r > g THEN (q + 1) * g
       ELSE IF q % 2 = 0 THEN q * g ELSE (q + 1) * g

Float32(v) ==
    IF v = NA THEN NA
    ELSE IF v >= 0 THEN RoundHalfEven(v, UlpFrom(v, 1))
    ELSE 0 - RoundHalfEven(0 - v, UlpFrom(0 - v, 1))

\* astype('uint16') of one int64 value: numpy keeps the low 16 bits
Uint16(v) == v % UINT16

\* The conversions of an out-of-range float64 to uint16 that builds of numpy
\* produce (the C conversion is undefined there): the low 16 bits of the
\* integer part, the nearest bound, or 0
Builds == {"wrap", "saturate", "zero"}

\* astype('uint16') of one finite float64 value holding the integer v
FloatToUint16(v, build) ==
    IF v \in 0..(UINT16 - 1) THEN v
    ELSE IF build = "wrap" THEN v % UINT16
    ELSE IF build = "saturate" THEN (IF v < 0 THEN 0 ELSE UINT16 - 1)
    ELSE 0

\* read_csv's dtype of number_of_trades: float64 when a field of the column
\* is empty, int64 otherwise
TradesDtype(f) ==
    IF \E r \in 1..Len(f.data) : Cell(f, r, "number_of_trades") = NA
    THEN "float64" ELSE "int64"

Float32Columns ==
    {"open", "high", "low", "close", "volume", "quote_asset_volume",
     "taker_buy_base_asset_volume", "taker_buy_quote_asset_volume"}

\* lines 35-50, for a frame whose number_of_trades column has dtype `dtype`.
\* astype('uint16') of a float64 column raises when the column holds a NaN
set_dtypes_compressed(f, dtype, build) ==
    LET k == ColIdx(f.columns, "open_time")
        stamped == [r \in 1..Len(f.data) |-> to_datetime(f.data[r][k])]
        indexed == [columns |-> DropAt(f.columns, {k}),
                    index |-> stamped,
                    data |-> [r \in 1..Len(f.data) |-> DropAt(f.data[r], {k})]]
        trades == Column(indexed, "number_of_trades")
        cast(c, v) == IF c \in Float32Columns THEN Float32(v)
                      ELSE IF c = "number_of_trades"
                           THEN (IF dtype = "int64" THEN Uint16(v)
                                 ELSE FloatToUint16(v, build))
                      ELSE v
    IN IF \E r \in 1..Len(trades) : trades[r] = NA
       THEN Raised
       ELSE Returned([indexed EXCEPT !.data =
                [r \in 1..Len(indexed.data) |->
                    [c \in 1..Len(indexed.columns) |->
                        cast(indexed.columns[c], indexed.data[r][c])]]])

\* lines 131-132: df['datetime'] = df.index, then reset_index(drop=True)
WithDatetime(f) ==
    Frame(Append(f.columns, "datetime"),
          [r \in 1..Len(f.data) |-> Append(f.data[r], f.index[r])])

\* df.to_dict('records')
to_records(f) ==
    [r \in 1..Len(f.data) |->
        [c \in Range(f.columns) |-> f.data[r][ColIdx(f.columns, c)]]]

\* pd.DataFrame(list of dicts): the columns are the keys of the dicts, in the
\* order cols they were built in; no dict, no column
from_records(recs, cols) ==
    IF recs = <<>> THEN Frame(<<>>, <<>>)
    ELSE Frame(cols, [r \in 1..Len(recs) |-> [c \in 1..Len(cols) |-> recs[r][cols[c]]]])

\* lines 105-112
addMissingMinutesDf(f) == from_records(addMissingMinutes(to_records(f)), f.columns)

\* lines 120-123: the rows kept, without close_time and ignore
Reliable(f) ==
    Drop(Masked(f, [r \in 1..Len(f.data) |-> IsFullMinute(f, r)]),
         {"close_time", "ignore"})

\* lines 120-133: the records handed to addMissingMinutes (none when the cast
\* raises)
HandedToGapFiller(f, build) ==
    LET typed == set_dtypes_compressed(Reliable(f), TradesDtype(f), build) IN
    IF typed.raised THEN <<>> ELSE to_records(WithDatetime(typed.df))

\* lines 115-136: what to_parquet writes, or the exception
write_raw_to_parquet(f, build) ==
    LET typed == set_dtypes_compressed(Reliable(f), TradesDtype(f), build) IN
    IF typed.raised THEN Raised
    ELSE Returned(addMissingMinutesDf(WithDatetime(typed.df)))

----------------------------------------------------------------------------
(* Specification: write_raw_to_parquet on a bounded raw frame *)

\* a raw row at t lasting d ms, closing at c, with n trades
RawRow(t, d, c, n) == <<t, c + 1, c + 2, c - 1, c, 7, t + d, 8, n, 4, 5, 0>>

RawTimes == {m * MINUTE : m \in 0..MaxRawMinute}

RawRows ==
    {RawRow(t, FULL_MINUTE, 10, 3) : t \in RawTimes}
        \cup {RawRow(t, FULL_MINUTE, FLOAT32_MANT + 1, UINT16 + 4464) : t \in RawTimes}
        \cup {RawRow(t, FULL_MINUTE - 9999, 20, 3) : t \in RawTimes}
        \cup {RawRow(0, FULL_MINUTE, 10, NA), BlankRow(NA)}

InitPipe ==
    /\ pc = "start"
    /\ raw \in {Frame(RawColumns, rows) : rows \in SeqsUpTo(RawRows, MaxRawRows)}
    /\ parquet = <<>>
    /\ initialData = <<>> /\ cleanData = <<>>
    /\ df = <<>> /\ checked = "none" /\ cleaned = <<>> /\ cleaned2 = <<>>
    /\ dir = <<>> /\ orig = <<>> /\ compressed = <<>>
    /\ mode = "none" /\ pos = 0 /\ runs = 0

WriteRawToParquet ==
    /\ pc = "start"
    /\ \E build \in Builds : parquet' = write_raw_to_parquet(raw, build)
    /\ pc' = "done"
    /\ UNCHANGED <<raw, initialData, cleanData, df, checked, cleaned, cleaned2,
                   dir, orig, compressed, mode, pos, runs>>

NextPipe == WriteRawToParquet

SpecPipe == InitPipe /\ [][NextPipe]_vars

----------------------------------------------------------------------------
(* Claims about the conversion pipeline *)

\* the raw rows lasting exactly 59999 ms, in input order
WellFormed(f) ==
    SelectSeq(f.data, LAMBDA row : row[1] # NA /\ row[7] # NA /\ row[7] - row[1] = 59999)

\* their timestamps, as records the gap arithmetic above reads
Stamps(rows) == [i \in 1..Len(rows) |-> [datetime |-> rows[i][1]]]

\* C3: the persisted output is the Gap Filler applied to the rows with
\* close_time - open_time = 59999, in input order: each kept row is there with
\* its timestamp and (compact) close, the minutes between two kept rows are
\* flat records at the earlier kept row's close, a row of another duration is
\* neither in the output nor the basis of a filler; raw rows at 0, 60000 and
\* 240000 ms yield 5 rows, with fillers at 120000 and 180000.  (Nothing is
\* persisted, the cast raising, exactly when a kept row has no number_of_trades.)
C3_PipelineFillsKeptRows ==
    pc = "done" =>
        LET kept == WellFormed(raw)
            at == Stamps(kept)
            n == Len(kept)
            out == to_records(parquet.df)
        IN
        /\ parquet.raised <=> \E i \in 1..n : kept[i][9] = NA
        /\ ~parquet.raised =>
            /\ Len(out) = n + MissingBefore(at, n)
            /\ n > 0 => /\ "close_time" \notin Range(parquet.df.columns)
                        /\ "ignore" \notin Range(parquet.df.columns)
            /\ \A i \in 1..n :
                  /\ out[PlaceOf(at, i)].datetime = kept[i][1]
                  /\ out[PlaceOf(at, i)].close = Float32(kept[i][5])
                  /\ out[PlaceOf(at, i)].open = Float32(kept[i][2])
                  /\ out[PlaceOf(at, i)].volume = Float32(kept[i][6])
            /\ \A i \in 1..(n - 1) : \A j \in 1..Missing(at, i) :
                  out[PlaceOf(at, i) + j] = Synthesized(out[PlaceOf(at, i)], j)
            /\ [i \in 1..n |-> kept[i][1]] = <<0, 60000, 240000>> =>
                  /\ Len(out) = 5
                  /\ [i \in 1..5 |-> out[i].datetime] = <<0, 60000, 120000, 180000, 240000>>
                  /\ out[3].close = out[2].close /\ out[4].close = out[2].close

\* a malformed row stands between two kept rows three minutes apart
C3_Witness ==
    /\ pc = "done"
    /\ ~parquet.raised
    /\ Len(raw.data) = 3
    /\ raw.data[2][7] - raw.data[2][1] # 59999
    /\ raw.data[1][1] = 0 /\ raw.data[2][1] = 60000 /\ raw.data[3][1] = 180000
    /\ Len(WellFormed(raw)) = 2
    /\ Len(parquet.df.data) = 4

\* C7 as stated: a number_of_trades value that is no 16-bit unsigned integer
\* makes the normalization fail with a cast error; no dataset is returned in
\* which the value has become another number.
C7_OutOfRangeTradesFail ==
    (pc = "done" /\ \E i \in 1..Len(WellFormed(raw)) :
                        /\ WellFormed(raw)[i][9] # NA
                        /\ WellFormed(raw)[i][9] \notin 0..65535)
        => parquet.raised

SharesDatetime(recs) ==
    \E i, j \in 1..Len(recs) : i # j /\ recs[i].datetime = recs[j].datetime

\* C9 as stated: in the conversion pipeline neither the dataset handed to the
\* Gap Filler nor the dataset persisted holds two records with one timestamp.
C9_PipelineTimestampsUnique ==
    (pc = "done" /\ ~parquet.raised) =>
        /\ \A build \in Builds : ~SharesDatetime(HandedToGapFiller(raw, build))
        /\ ~SharesDatetime(to_records(parquet.df))

----------------------------------------------------------------------------
(* groom_data and compress_data *)

\* read_csv's name for a column the header leaves unnamed (k counts from 0)
Unnamed(k) == "Unnamed: " \o ToString(k)

\* read_csv's header: an empty name becomes Unnamed(k), a name already seen
\* gets the suffix .1 (to_csv's output never repeats a name three times)
RECURSIVE Fresh(_, _)
Fresh(name, seen) == IF name \in seen THEN Fresh(name \o ".1", seen) ELSE name

RECURSIVE ReadHeader(_, _, _)
ReadHeader(header, k, done) ==
    IF k > Len(header) THEN done
    ELSE LET named == IF header[k] = "" THEN Unnamed(k - 1) ELSE header[k] IN
         ReadHeader(header, k + 1, Append(done, Fresh(named, Range(done))))

\* pd.read_csv(full_path): an empty field is NaN
read_csv(file) == Frame(ReadHeader(file.header, 1, <<>>), file.rows)

\* df.to_csv(full_path), the default index=True: the index is written as a
\* first column with an empty name
to_csv(f) ==
    [ext |-> "csv",
     header |-> <<"">> \o f.columns,
     rows |-> [r \in 1..Len(f.data) |-> <<f.index[r]>> \o f.data[r]]]

\* line 143 / line 153
IsCsv(file) == file.ext = "csv"

----------------------------------------------------------------------------
(* Specification: a batch driver over a bounded directory *)

BatchRows ==
    {FullRow(0, 10), FullRow(0, 20), FullRow(2 * MINUTE, 10), BlankRow(NA),
     RawRow(0, FULL_MINUTE, 10, NA)}

Files ==
    {[ext |-> "csv", header |-> RawColumns, rows |-> rows] :
        rows \in SeqsUpTo(BatchRows, MaxFileRows)}
        \cup {[ext |-> "txt", header |-> <<"notes">>, rows |-> <<>>]}

InitBatch ==
    /\ pc = "loop"
    /\ mode \in {"groom", "compress"}
    /\ dir \in UNION {[1..k -> Files] : k \in 1..MaxFiles}
    /\ orig = dir
    /\ compressed = [k \in 1..Len(dir) |-> "absent"]
    /\ pos = 1
    /\ runs = 0
    /\ initialData = <<>> /\ cleanData = <<>>
    /\ df = <<>> /\ checked = "none" /\ cleaned = <<>> /\ cleaned2 = <<>>
    /\ raw = <<>> /\ parquet = <<>>

BatchIdle ==
    UNCHANGED <<initialData, cleanData, df, checked, cleaned, cleaned2, raw, parquet, orig>>

\* the file name does not end in .csv
SkipFile ==
    /\ pc = "loop" /\ pos <= Len(dir)
    /\ ~IsCsv(dir[pos])
    /\ pos' = pos + 1
    /\ UNCHANGED <<pc, dir, compressed, mode, runs>>
    /\ BatchIdle

\* line 145, quick_clean returns
GroomFile ==
    /\ pc = "loop" /\ pos <= Len(dir) /\ mode = "groom"
    /\ IsCsv(dir[pos])
    /\ LET res == quick_clean(read_csv(dir[pos])) IN
        /\ ~res.raised
        /\ dir' = [dir EXCEPT ![pos] = to_csv(res.df)]
    /\ pos' = pos + 1
    /\ UNCHANGED <<pc, compressed, mode, runs>>
    /\ BatchIdle

\* line 145, quick_clean raises: the exception leaves groom_data
GroomRaises ==
    /\ pc = "loop" /\ pos <= Len(dir) /\ mode = "groom"
    /\ IsCsv(dir[pos])
    /\ quick_clean(read_csv(dir[pos])).raised
    /\ pc' = "raised"
    /\ UNCHANGED <<dir, compressed, mode, pos, runs>>
    /\ BatchIdle

\* lines 154-160, write_raw_to_parquet returns
CompressFile ==
    /\ pc = "loop" /\ pos <= Len(dir) /\ mode = "compress"
    /\ IsCsv(dir[pos])
    /\ \E build \in Builds :
        LET res == write_raw_to_parquet(read_csv(dir[pos]), build) IN
        /\ ~res.raised
        /\ compressed' = [compressed EXCEPT ![pos] = res.df]
    /\ pos' = pos + 1
    /\ UNCHANGED <<pc, dir, mode, runs>>
    /\ BatchIdle

\* lines 154-160, write_raw_to_parquet raises: the exception leaves compress_data
CompressRaises ==
    /\ pc = "loop" /\ pos <= Len(dir) /\ mode = "compress"
    /\ IsCsv(dir[pos])
    /\ \E build \in Builds : write_raw_to_parquet(read_csv(dir[pos]), build).raised
    /\ pc' = "raised"
    /\ UNCHANGED <<dir, compressed, mode, pos, runs>>
    /\ BatchIdle

\* os.listdir is exhausted: the driver returns
DriverReturns ==
    /\ pc = "loop" /\ pos > Len(dir)
    /\ pc' = "returned"
    /\ runs' = runs + 1
    /\ UNCHANGED <<dir, compressed, mode, pos>>
    /\ BatchIdle

\* groom_data is called on the directory once more
GroomAgain ==
    /\ pc = "returned" /\ mode = "groom" /\ runs < MaxGroomRuns
    /\ pc' = "loop"
    /\ pos' = 1
    /\ UNCHANGED <<dir, compressed, mode, runs>>
    /\ BatchIdle

NextBatch ==
    \/ SkipFile
    \/ GroomFile
    \/ GroomRaises
    \/ CompressFile
    \/ CompressRaises
    \/ DriverReturns
    \/ GroomAgain

SpecBatch == InitBatch /\ [][NextBatch]_vars

----------------------------------------------------------------------------
(* Claims about the batch drivers *)

\* C6 as stated: a failure while processing one file does not stop the batch;
\* when the driver has stopped, every matching file of the directory has been
\* processed.
C6_BatchSurvivesFileFailure ==
    pc \in {"raised", "returned"} =>
        \A k \in 1..Len(dir) :
            IsCsv(orig[k]) => (k < pos \/ (k = pos /\ pc = "raised"))

\* the rows of a file whose first field no earlier row repeats
FirstRows(file) ==
    SelectSeq([r \in 1..Len(file.rows) |-> <<r, file.rows[r]>>],
              LAMBDA p : \A q \in 1..(p[1] - 1) : file.rows[q][1] # p[2][1])

\* groom_data has rewritten file k
Rewritten(k) == mode = "groom" /\ IsCsv(orig[k]) /\ (runs >= 1 \/ k < pos)

\* C8 as stated: each file groom_data rewrote has the header it had before (no
\* column added or removed) and holds the original rows minus the later rows
\* of each duplicated open_time; a second run leaves it as the first run did.
C8_GroomKeepsFormat ==
    \A k \in 1..Len(dir) :
        Rewritten(k) =>
            /\ dir[k].header = orig[k].header
            /\ dir[k].rows = [r \in 1..Len(FirstRows(orig[k])) |-> FirstRows(orig[k])[r][2]]

====
